---- MODULE Spec2Model ----
(***************************************************************************)
(* A model of TruffleWireDecoder (packages/decoder/lib/wire.ts): the code  *)
(* cache, the driver loop that runs a suspendable decode process, and the  *)
(* facade operations built on them.                                        *)
(*                                                                         *)
(* Hex strings are sequences of hex digits (the "0x" prefix is implicit),  *)
(* byte arrays are sequences of numbers 0..255.  An optional value is a    *)
(* sequence of length 0 (undefined / null) or 1.                           *)
(*                                                                         *)
(* JavaScript runs every asynchronous function to its next await without   *)
(* interruption, so one action of the model is one such run.               *)
(***************************************************************************)
EXTENDS Integers, Sequences, FiniteSets, TLC

\* ------------------------------------------------------------- bounds
MaxTasks == 3    \* task slots: the getCode calls a client makes in one run
MaxReq == 2      \* requests the decode processes of one run yield, in all
MaxFail == 1     \* transport calls that fail in one run
MaxLogs == 2     \* logs of one decodeLogs call or getPastLogs answer
MaxContracts == 3   \* contracts handed to the constructor
MaxInstances == 2   \* loadable contract instances of one load

\* ------------------------------------------------------- environment
Addresses == {"a1", "a2"}
Blocks == {1, 2}
NullAddress == "null"
TaskIds == 1..MaxTasks
\* Two decode operations run side by side.
DecodeSlots == {1, 2}

None == << >>
Some(x) == << x >>

\* The chain: what the transport's eth_getCode answers for (address, block)
\* when it answers at all.  Deployed code at a historical block is fixed.
ChainCode(address, block) ==
  CASE address = "a1" /\ block = 1 -> << >>            \* "0x": nothing deployed yet
    [] address = "a1" /\ block = 2 -> <<6, 0>>
    [] address = "a2" /\ block = 1 -> <<8, 8>>
    [] OTHER                       -> <<7, 1>>

\* The known contracts handed to the constructor.
Contracts ==
  << [id |-> 1, deployedBytecode |-> <<6, 0>>, bytecode |-> <<6, 1>>],
     [id |-> 2, deployedBytecode |-> <<7, 1>>, bytecode |-> << >>] >>

\* The contracts a constructor may be handed: two AST node ids, runtime
\* code absent or one of two binaries, creation code absent or equal to the
\* first of them.  Every contract has a contract node.
ContractCatalog ==
  { [id |-> id, deployedBytecode |-> d, bytecode |-> b] :
      id \in {1, 2}, d \in { << >>, <<6, 0>>, <<6, 1>> }, b \in { << >>, <<6, 0>> } }

\* Inputs of the transactions the model decodes: creation bytecode of
\* contract 1 followed by constructor arguments, and plain calldata.
TxInputs == { <<6, 1, 0, 2>>, <<9, 9>> }

\* Requests a decode process may yield: the code of an address, or a
\* request of a kind the driver has no case for.
CodeRequests == { [type |-> "code", address |-> a] : a \in Addresses }
OtherRequest == [type |-> "storage", address |-> "a1"]

\* What a decode process yields from one resumption to its next code
\* request or its end: some requests of the other kind, then at most one
\* code request, n requests at most.
Bursts(n) ==
  { [i \in 1..m |-> OtherRequest] \o tail :
      m \in 0..n, tail \in { << >> } \cup { << r >> : r \in CodeRequests } }
  \cap UNION { [1..m -> CodeRequests \cup {OtherRequest}] : m \in 0..n }

RECURSIVE SeqsUpTo(_, _)
SeqsUpTo(S, n) ==
  IF n = 0 THEN { << >> }
  ELSE LET shorter == SeqsUpTo(S, n - 1)
       IN  shorter \cup { Append(q, x) : q \in { r \in shorter : Len(r) = n - 1 }, x \in S }

\* The additionalContexts a caller may pass to a decode operation: none, or
\* the runtime context of a contract the decoder was not constructed with.
\* The contexts of this by-id object are listed in the order of their ids.
AdditionalContexts ==
  { << >>, << [contractId |-> 3, binary |-> <<9, 9>>, isConstructor |-> FALSE] >> }

EventNames == {"Transfer", "Approval"}
Topics == EventNames \cup {"unknown"}
NameOptions == {"undefined", "Transfer"}

\* ------------------------------------------------------- conversions
\* CodecUtils.Conversion.toBytes on a hex string: an odd number of digits
\* is padded with a leading zero, then each pair of digits is one byte.
ToBytes(hex) ==
  LET h == IF Len(hex) % 2 = 1 THEN <<0>> \o hex ELSE hex
  IN  [i \in 1..(Len(h) \div 2) |-> h[2 * i - 1] * 16 + h[2 * i]]

\* CodecUtils.Conversion.toHexString on a byte array: two digits per byte.
ToHexString(bytes) ==
  [i \in 1..(2 * Len(bytes)) |->
     IF i % 2 = 1 THEN bytes[(i + 1) \div 2] \div 16 ELSE bytes[i \div 2] % 16]

\* ---------------------------------------------------- context registry
\* Utils.makeContext: the context of a contract's runtime or creation code.
MakeContext(contract, isConstructor) ==
  [contractId |-> contract.id,
   binary |-> IF isConstructor THEN contract.bytecode ELSE contract.deployedBytecode,
   isConstructor |-> isConstructor]

\* keccak256 of the binary, as a table key: distinct binaries have distinct
\* keys, so the binary stands for its own hash.
HashOf(binary) == binary

\* An assignment that leaves a key that is already there as it is.
PutContextKeepFirst(table, hash, context) ==
  IF \E i \in 1..Len(table) : table[i].hash = hash
  THEN table
  ELSE Append(table, [hash |-> hash, context |-> context])

\* this.contexts[hash] = context on a JavaScript object kept as the
\* sequence of its entries in key order: a new key goes last, an existing
\* key keeps its place and takes the new value.
PutContext(table, hash, context) ==
  IF \E i \in 1..Len(table) : table[i].hash = hash
  THEN [i \in 1..Len(table) |->
          IF table[i].hash = hash THEN [hash |-> hash, context |-> context] ELSE table[i]]
  ELSE Append(table, [hash |-> hash, context |-> context])

\* One turn of the constructor's loop over the contracts.
RegisterContract(table, contract) ==
  LET t1 == IF contract.deployedBytecode # << >>
            THEN PutContext(table, HashOf(contract.deployedBytecode),
                            MakeContext(contract, FALSE))
            ELSE table
  IN  IF contract.bytecode # << >>
      THEN PutContext(t1, HashOf(contract.bytecode), MakeContext(contract, TRUE))
      ELSE t1

RECURSIVE RegisterAll(_, _)
RegisterAll(table, contracts) ==
  IF contracts = << >> THEN table
  ELSE RegisterAll(RegisterContract(table, Head(contracts)), Tail(contracts))

\* The assignments this.contexts[hash] = context of the constructor's loop,
\* in the order they are made.
RECURSIVE Registrations(_)
Registrations(contracts) ==
  IF contracts = << >> THEN << >>
  ELSE LET contract == Head(contracts)
           runtime == IF contract.deployedBytecode # << >>
                      THEN << [hash |-> HashOf(contract.deployedBytecode),
                               context |-> MakeContext(contract, FALSE)] >>
                      ELSE << >>
           creation == IF contract.bytecode # << >>
                       THEN << [hash |-> HashOf(contract.bytecode),
                                context |-> MakeContext(contract, TRUE)] >>
                       ELSE << >>
       IN  runtime \o creation \o Registrations(Tail(contracts))

\* Contexts.normalizeContexts: library-link placeholders are blanked; the
\* binaries of the model hold no link references and are left as they are.
NormalizeContexts(table) == table

\* A view built from the contexts of both kinds.
ViewByIdUnfiltered(table, isConstructor) ==
  LET idx == 1..Len(table)
      ids == { table[i].context.contractId : i \in idx }
      last(id) == CHOOSE i \in idx :
                    /\ table[i].context.contractId = id
                    /\ \A j \in idx : table[j].context.contractId = id => j <= i
  IN  [id \in ids |-> table[last(id)].context]

\* The by-id view of the contexts of one kind (Object.assign of one
\* single-key object per context: a later context of the same id wins).
ViewById(table, isConstructor) ==
  LET idx == { i \in 1..Len(table) : table[i].context.isConstructor = isConstructor }
      ids == { table[i].context.contractId : i \in idx }
      last(id) == CHOOSE i \in idx :
                    /\ table[i].context.contractId = id
                    /\ \A j \in idx : table[j].context.contractId = id => j <= i
  IN  [id \in ids |-> table[last(id)].context]

\* collectUserDefinedTypes: the stored type of every contract, by node id
\* (the contracts of the model define no struct or enum).
UserDefinedTypes(contracts) ==
  [id \in { contracts[i].id : i \in 1..Len(contracts) } |->
     [typeClass |-> "contract", id |-> id]]

\* The allocation info the allocation tables are computed from: per
\* contract id, the constructor context of that id if there is one.
Allocations(contracts, constructorsById) ==
  [id \in { contracts[i].id : i \in 1..Len(contracts) } |->
     [id |-> id,
      constructorContext |-> IF id \in DOMAIN constructorsById
                             THEN Some(constructorsById[id]) ELSE None]]

\* Whether a stored pattern matches the queried code: the code starts with
\* the pattern.
MatchContext(context, code) ==
  /\ Len(context.binary) <= Len(code)
  /\ \A i \in 1..Len(context.binary) : context.binary[i] = code[i]

\* Contexts.findDecoderContext: the longest matching pattern, the one
\* registered last among equally long ones; null when nothing matches.
FindDecoderContext(table, code) ==
  LET hits == { i \in 1..Len(table) : MatchContext(table[i].context, code) }
  IN  IF hits = {} THEN None
      ELSE LET best == CHOOSE i \in hits :
                         \A j \in hits :
                           \/ Len(table[j].context.binary) < Len(table[i].context.binary)
                           \/ /\ Len(table[j].context.binary) = Len(table[i].context.binary)
                              /\ j <= i
           IN  Some(table[best].context)

\* ---------------------------------------------------------------- state
VARIABLES
  contexts,                 \* this.contexts: the by-hash table
  contextsById,             \* this.contextsById
  constructorContextsById,  \* this.constructorContextsById
  userDefinedTypes,         \* this.userDefinedTypes
  allocations,              \* this.allocations
  registered,               \* the contexts the constructor assigned, in order
  codeCache,                \* this.codeCache: block -> address -> bytes
  rpcCalls,                 \* eth_getCode calls the transport has received, per key
  keyLog,                   \* per key, the getCode invocations in the order they began
  tasks,                    \* the getCode calls and decode operations of the run
  batch,                    \* the decodeLogs call of the run
  ev,                       \* the events call of the run
  loader                    \* the generateContractInstancesLoad call of the run

vars == << contexts, contextsById, constructorContextsById, userDefinedTypes,
           allocations, registered, codeCache, rpcCalls, keyLog, tasks, batch, ev,
           loader >>

\* What the constructor builds.
registry == << contexts, contextsById, constructorContextsById, userDefinedTypes,
              allocations, registered >>

Keys == Blocks \X Addresses

EmptyLayer == [a \in {} |-> << >>]

IdleTask ==
  [kind |-> "none", pc |-> "idle", address |-> NullAddress, block |-> 1,
   input |-> << >>, topic |-> "unknown", name |-> "undefined", script |-> << >>,
   k |-> 0, nexts |-> 0, resp |-> None, resps |-> << >>, ctx |-> None,
   ctxCalls |-> 0, made |-> << >>, wait |-> <<1, "a1">>, inv |-> 0, result |-> None,
   extra |-> << >>]

IdleBatch == [st |-> "idle", logs |-> << >>, name |-> "undefined", members |-> << >>,
              result |-> << >>]

IdleEvents == [st |-> "idle", name |-> "undefined", logs |-> << >>, calls |-> 0,
               result |-> << >>]

IdleLoader == [st |-> "idle", input |-> << >>, loads |-> << >>, result |-> None]

\* What the constructor leaves in the decoder's fields, lines 40-92.
Constructed(contracts) ==
  /\ contexts = NormalizeContexts(RegisterAll(<< >>, contracts))
  /\ contextsById = ViewById(contexts, FALSE)
  /\ constructorContextsById = ViewById(contexts, TRUE)
  /\ userDefinedTypes = UserDefinedTypes(contracts)
  /\ allocations = Allocations(contracts, constructorContextsById)
  /\ registered = Registrations(contracts)

\* The state after construction (wire.ts constructor).
Init ==
  /\ Constructed(Contracts)
  /\ codeCache = [b \in {} |-> EmptyLayer]
  /\ rpcCalls = [key \in Keys |-> 0]
  /\ keyLog = [key \in Keys |-> << >>]
  /\ tasks = [t \in TaskIds |-> IdleTask]
  /\ batch = IdleBatch
  /\ ev = IdleEvents
  /\ loader = IdleLoader

\* The mutable part of the state, as one value the operations transform.
Now == [codeCache |-> codeCache, rpcCalls |-> rpcCalls, keyLog |-> keyLog, tasks |-> tasks]

Commit(S) ==
  /\ codeCache' = S.codeCache
  /\ rpcCalls' = S.rpcCalls
  /\ keyLog' = S.keyLog
  /\ tasks' = S.tasks

\* -------------------------------------------------------------- getCode
\* getCode, lines 121-123: the block's layer is created when missing.
WithLayer(cache, block) ==
  IF block \in DOMAIN cache THEN cache
  ELSE [b \in DOMAIN cache \cup {block} |-> IF b = block THEN EmptyLayer ELSE cache[b]]

\* getCode, line 125: the key is cached.
IsCached(cache, address, block) ==
  /\ block \in DOMAIN cache
  /\ address \in DOMAIN cache[block]

\* A getCode that forgets to store what it fetched.
StoreNothing(cache, address, block, code) == cache

\* A store that replaces the block's layer by one holding the new code only.
StoreCodeReplacingLayer(cache, address, block, code) ==
  [cache EXCEPT ![block] = [a \in {address} |-> code]]

\* getCode, line 135: the fetched code is stored under its key.
StoreCode(cache, address, block, code) ==
  [cache EXCEPT ![block] =
     [a \in DOMAIN @ \cup {address} |-> IF a = address THEN code ELSE @[a]]]

\* getCode from its call by task t to its return (a hit) or to its await of
\* the transport (a miss), lines 119-134.  The returned bytes of a hit are
\* left in the task's resp.
GetCodeBegin(S, t, address, block) ==
  LET cache == WithLayer(S.codeCache, block)
      key == <<block, address>>
      hit == IsCached(cache, address, block)
      entry == [task |-> t,
                calls |-> IF hit THEN 0 ELSE 1,
                st |-> IF hit THEN "ok" ELSE "pending",
                code |-> IF hit THEN Some(cache[block][address]) ELSE None,
                overlapped |-> \E i \in 1..Len(S.keyLog[key]) : S.keyLog[key][i].st = "pending"]
  IN  [S EXCEPT
         !.codeCache = cache,
         !.rpcCalls[key] = IF hit THEN @ ELSE @ + 1,
         !.keyLog[key] = Append(@, entry),
         !.tasks[t].wait = key,
         !.tasks[t].inv = Len(S.keyLog[key]) + 1,
         !.tasks[t].made = Append(@, entry.calls),
         !.tasks[t].resp = entry.code]

\* A caller that takes every getCode as returned, without awaiting it.
WasHitAlways(S, t) == TRUE

\* Whether task t's last getCode returned from the cache.
WasHit(S, t) == S.keyLog[S.tasks[t].wait][S.tasks[t].inv].st = "ok"

\* A getCode that returns the transport's answer as it came and stores the
\* converted bytes.
GetCodeEndRaw(S, t, hex) ==
  LET T == S.tasks[t]
      code == ToBytes(hex)
  IN  [S EXCEPT
         !.codeCache = StoreCode(@, T.wait[2], T.wait[1], code),
         !.keyLog[T.wait][T.inv].st = "ok",
         !.keyLog[T.wait][T.inv].code = Some(code),
         !.tasks[t].resp = Some(hex)]

\* getCode after the transport answered task t's call with hex, lines 129-136.
GetCodeEnd(S, t, hex) ==
  LET T == S.tasks[t]
      code == ToBytes(hex)
  IN  [S EXCEPT
         !.codeCache = StoreCode(@, T.wait[2], T.wait[1], code),
         !.keyLog[T.wait][T.inv].st = "ok",
         !.keyLog[T.wait][T.inv].code = Some(code),
         !.tasks[t].resp = Some(code)]

\* A getCode that throws away the block's layer when its fetch fails.
GetCodeFailDropLayer(S, t) ==
  LET T == S.tasks[t]
  IN  [S EXCEPT !.keyLog[T.wait][T.inv].st = "fail",
                !.codeCache = [b \in DOMAIN @ \ {T.wait[1]} |-> @[b]]]

\* A getCode that caches empty code when its fetch fails.
GetCodeFailCachingEmpty(S, t) ==
  LET T == S.tasks[t]
  IN  [S EXCEPT !.keyLog[T.wait][T.inv].st = "fail",
                !.codeCache = StoreCode(@, T.wait[2], T.wait[1], << >>)]

\* getCode after the transport call of task t failed: the rejection leaves
\* line 130 and nothing is stored.
GetCodeFail(S, t) ==
  LET T == S.tasks[t]
  IN  [S EXCEPT !.keyLog[T.wait][T.inv].st = "fail"]

\* --------------------------------------------------- the decode process
\* The final value of Codec.decodeCalldata: a function of what the process
\* was given (the calldata, the current context, the responses).
CalldataDecoding(T) ==
  [kind |-> "calldata", context |-> T.ctx, data |-> ToBytes(T.input), seen |-> T.resps]

\* The final value of Codec.decodeEvent: one decoding per event the log
\* matches, restricted to the target name when one is given.
EventDecodings(T) ==
  LET matched == IF T.topic \in EventNames THEN << T.topic >> ELSE << >>
      keep(n) == T.name = "undefined" \/ n = T.name
      kept == SelectSeq(matched, keep)
  IN  [i \in 1..Len(kept) |->
         [kind |-> "event", name |-> kept[i], data |-> ToBytes(T.input), seen |-> T.resps]]

\* decodeTransaction, lines 171-176, and decodeLog, lines 210-215.
DecodedTransaction(T) ==
  [to |-> T.address, blockNumber |-> T.block, input |-> T.input,
   decoding |-> CalldataDecoding(T)]

DecodedLog(T) ==
  [address |-> T.address, blockNumber |-> T.block, data |-> T.input, topic |-> T.topic,
   decodings |-> EventDecodings(T)]

Returned(T) == IF T.kind = "tx" THEN DecodedTransaction(T) ELSE DecodedLog(T)

\* ------------------------------------------------------ the driver loop
\* What the driver does with a yielded request, lines 160-167 and 199-206:
\* "call" getCode, or "skip" (no case of the switch matches, the response
\* stays undefined).
DispatchNothing(request) == "skip"

Dispatch(request) == IF request.type = "code" THEN "call" ELSE "skip"

\* The driver from a call of decoder.next to its next await or its return:
\* lines 158-177 and 197-216.  The first call of next passes nothing, a
\* later one passes the response.
RECURSIVE Drive(_, _)
Drive(S, t) ==
  LET T == S.tasks[t]
      T1 == [T EXCEPT !.nexts = @ + 1,
                      !.resps = IF T.nexts = 0 THEN @ ELSE Append(@, T.resp)]
  IN  IF T1.k = Len(T1.script)
      THEN [S EXCEPT !.tasks[t] = [T1 EXCEPT !.pc = "done", !.result = Some(Returned(T1))]]
      ELSE LET request == T1.script[T1.k + 1]
               T2 == [T1 EXCEPT !.k = @ + 1, !.resp = None]
               S2 == [S EXCEPT !.tasks[t] = T2]
           IN  IF Dispatch(request) = "call"
               THEN LET S3 == GetCodeBegin(S2, t, request.address, T2.block)
                    IN  [S3 EXCEPT !.tasks[t].pc = IF WasHit(S3, t) THEN "ready" ELSE "await"]
               ELSE Drive(S2, t)

\* ----------------------------------------------------------- operations
\* Operations take the task slots in order.
FreeSlot(t) ==
  /\ tasks[t].pc = "idle"
  /\ \A u \in TaskIds : u < t => tasks[u].pc # "idle"

RECURSIVE Yielded(_, _)
Yielded(S, t) == IF t = 0 THEN 0 ELSE Len(S.tasks[t].script) + Yielded(S, t - 1)

\* The requests the decode processes may still yield.
Budget(S) == MaxReq - Yielded(S, MaxTasks)

\* The decode process of task t will yield `more` before it next waits for
\* code or ends.
Feed(S, t, more) == [S EXCEPT !.tasks[t].script = @ \o more]

\* A client calls getCode(address, block), lines 119-137.
CallGetCode(t, address, block) ==
  /\ FreeSlot(t)
  /\ LET T0 == [IdleTask EXCEPT !.kind = "getCode", !.address = address, !.block = block]
         S1 == GetCodeBegin([Now EXCEPT !.tasks[t] = T0], t, address, block)
     IN  Commit([S1 EXCEPT
                   !.tasks[t].pc = IF WasHit(S1, t) THEN "done" ELSE "await",
                   !.tasks[t].result = IF WasHit(S1, t) THEN S1.tasks[t].resp ELSE None])
  /\ UNCHANGED << registry, loader, batch, ev >>

\* decodeTransaction to the await of getContextByAddress, lines 140-143 and
\* 260-269: getCode is called only for a non-null address.
BeginTransaction(S, t, tx, additionalContexts) ==
  LET T0 == [IdleTask EXCEPT !.kind = "tx", !.address = tx.to, !.block = tx.blockNumber,
                             !.input = tx.input, !.extra = additionalContexts]
      S0 == [S EXCEPT !.tasks[t] = T0]
  IN  IF tx.to # NullAddress
      THEN LET S1 == GetCodeBegin(S0, t, tx.to, tx.blockNumber)
           IN  [S1 EXCEPT !.tasks[t].ctxCalls = 1,
                          !.tasks[t].pc = IF WasHit(S1, t) THEN "ctxReady" ELSE "ctxAwait"]
      ELSE [S0 EXCEPT !.tasks[t].pc = "ctxReady"]

CallDecodeTransaction(t, tx, additionalContexts) ==
  /\ FreeSlot(t)
  /\ Commit(BeginTransaction(Now, t, tx, additionalContexts))
  /\ UNCHANGED << registry, loader, batch, ev >>

\* A lookup that prefers the constructor binary whenever one is passed.
ContextCodeFromInput(T) == T.input

\* getContextByAddress, lines 261-269: the code the context is looked up by.
ContextCode(T) ==
  IF T.address # NullAddress THEN ToHexString(T.resp[1]) ELSE T.input

\* {...this.contexts, ...additionalContexts}, line 271: a new object; its
\* integer keys, the ids of the additional contexts, come before its other
\* keys, the hashes, in the order of its values.
MergeContexts(table, additionalContexts) ==
  [i \in 1..Len(additionalContexts) |->
     [hash |-> << additionalContexts[i].contractId >>, context |-> additionalContexts[i]]]
  \o table

\* getContextByAddress, lines 271-272.
ContextOf(T) == FindDecoderContext(MergeContexts(contexts, T.extra), ContextCode(T))

\* A decodeTransaction that gives up when no context matches.
WithContextOrFail(S, t, context, more) ==
  IF context = None
  THEN [S EXCEPT !.tasks[t].ctx = context, !.tasks[t].resp = None, !.tasks[t].pc = "failed"]
  ELSE Drive(Feed([S EXCEPT !.tasks[t].ctx = context, !.tasks[t].resp = None], t, more), t)

\* decodeTransaction with the context getContextByAddress returned, null or
\* not, to the first await of the loop, lines 143-169.
WithContext(S, t, context, more) ==
  Drive(Feed([S EXCEPT !.tasks[t].ctx = context, !.tasks[t].resp = None], t, more), t)

\* A getContextByAddress that merges the additional contexts into the
\* decoder's own table.
ResolveContextStoring(t, more) ==
  /\ tasks[t].pc = "ctxReady"
  /\ more \in Bursts(Budget(Now))
  /\ Commit(WithContext(Now, t, ContextOf(tasks[t]), more))
  /\ contexts' = MergeContexts(contexts, tasks[t].extra)
  /\ UNCHANGED << contextsById, constructorContextsById, userDefinedTypes, allocations,
                  registered, loader, batch, ev >>

\* decodeTransaction resumes when getContextByAddress has returned.
ResolveContext(t, more) ==
  /\ tasks[t].pc = "ctxReady"
  /\ more \in Bursts(Budget(Now))
  /\ Commit(WithContext(Now, t, ContextOf(tasks[t]), more))
  /\ UNCHANGED << registry, loader, batch, ev >>

\* decodeLog to the first await of its loop, lines 181-208.
BeginLog(S, t, log, name, more) ==
  LET T0 == [IdleTask EXCEPT !.kind = "log", !.address = log.address,
                             !.block = log.blockNumber, !.input = log.data,
                             !.topic = log.topic, !.name = name, !.script = more]
  IN  Drive([S EXCEPT !.tasks[t] = T0], t)

CallDecodeLog(t, log, name, more) ==
  /\ FreeSlot(t)
  /\ more \in Bursts(Budget(Now))
  /\ Commit(BeginLog(Now, t, log, name, more))
  /\ UNCHANGED << registry, loader, batch, ev >>

\* A driver whose getCode returned resumes the process, lines 164-168.
Resume(t, more) ==
  /\ tasks[t].pc = "ready"
  /\ more \in Bursts(Budget(Now))
  /\ Commit(Drive(Feed(Now, t, more), t))
  /\ UNCHANGED << registry, loader, batch, ev >>

\* A getCode whose caller is never resumed.
AfterGetCodeStuck(T) == T

\* Where a task goes when its getCode returns.
AfterGetCode(T) ==
  CASE T.kind = "getCode" -> [T EXCEPT !.pc = "done", !.result = T.resp]
    [] T.pc = "ctxAwait"  -> [T EXCEPT !.pc = "ctxReady"]
    [] OTHER              -> [T EXCEPT !.pc = "ready"]

\* The transport answers the eth_getCode call of task t, lines 129-136.
TransportReturn(t) ==
  /\ tasks[t].pc \in {"await", "ctxAwait"}
  /\ LET S1 == GetCodeEnd(Now, t, ChainCode(tasks[t].wait[2], tasks[t].wait[1]))
     IN  Commit([S1 EXCEPT !.tasks[t] = AfterGetCode(@)])
  /\ UNCHANGED << registry, loader, batch, ev >>

\* A caller that swallows the failure and goes on without the code.
AfterGetCodeFailedSwallowed(T) ==
  [T EXCEPT !.pc = IF T.pc = "ctxAwait" THEN "ctxReady" ELSE "ready"]

\* Where a task goes when its getCode throws.
AfterGetCodeFailed(T) == [T EXCEPT !.pc = "failed"]

Failures == Cardinality({ t \in TaskIds : tasks[t].pc = "failed" })

\* The eth_getCode call of task t fails: the rejection leaves getCode and
\* the operation that awaited it.
TransportFail(t) ==
  /\ tasks[t].pc \in {"await", "ctxAwait"}
  /\ Failures < MaxFail
  /\ LET S1 == GetCodeFail(Now, t)
     IN  Commit([S1 EXCEPT !.tasks[t] = AfterGetCodeFailed(@)])
  /\ UNCHANGED << registry, loader, batch, ev >>

Transactions ==
  { [to |-> to, blockNumber |-> b, input |-> input] :
      to \in {NullAddress, "a1"}, b \in Blocks, input \in TxInputs }

Logs ==
  { [address |-> "a1", blockNumber |-> 2, data |-> <<0, 5>>, topic |-> tp] : tp \in Topics }

LogLists == SeqsUpTo(Logs, MaxLogs)

\* ------------------------------------------------- decodeLogs and events
RECURSIVE TotalLen(_, _)
TotalLen(mores, n) == IF n = 0 THEN 0 ELSE Len(mores[n]) + TotalLen(mores, n - 1)

\* What the decode processes of n logs yield before each first waits or ends.
BurstLists(n, budget) ==
  { mores \in [1..n -> Bursts(budget)] : TotalLen(mores, n) <= budget }

\* logs.map(log => this.decodeLog(...)), line 221: the decodeLog calls begin
\* one after the other, each running to its first await.
RECURSIVE MapDecodeLog(_, _, _, _, _)
MapDecodeLog(S, logs, name, mores, i) ==
  IF i > Len(logs) THEN S
  ELSE MapDecodeLog(BeginLog(S, i, logs[i], name, mores[i]), logs, name, mores, i + 1)

\* decodeLogs to its await of Promise.all, lines 220-221.
BeginDecodeLogs(logs, name, mores) ==
  /\ \A t \in TaskIds : tasks[t].pc = "idle"
  /\ Len(logs) <= MaxTasks
  /\ Commit(MapDecodeLog(Now, logs, name, mores, 1))
  /\ batch' = [st |-> "running", logs |-> logs, name |-> name,
               members |-> [i \in 1..Len(logs) |-> i], result |-> << >>]

\* A client calls decodeLogs(logs, options), with one of the given lists of
\* logs and one of the given names.
CallDecodeLogsOf(lists, names) ==
  /\ batch.st = "idle"
  /\ ev.st = "idle"
  /\ \E logs \in lists, name \in names :
       \E mores \in BurstLists(Len(logs), Budget(Now)) : BeginDecodeLogs(logs, name, mores)
  /\ UNCHANGED << registry, loader, ev >>

CallDecodeLogs == CallDecodeLogsOf(LogLists, NameOptions)

\* A gathering of the results that does not keep the order of the calls.
AllSettledReversed(B, T) ==
  IF \E i \in 1..Len(B.members) : T[B.members[i]].pc = "failed"
  THEN [B EXCEPT !.st = "failed"]
  ELSE [B EXCEPT !.st = "done",
                 !.result = [i \in 1..Len(B.members) |->
                               T[B.members[Len(B.members) + 1 - i]].result[1]]]

\* How Promise.all settles, line 221: rejected once a decodeLog has failed,
\* fulfilled with the results in the order of the calls once all are done.
AllSettled(B, T) ==
  IF \E i \in 1..Len(B.members) : T[B.members[i]].pc = "failed"
  THEN [B EXCEPT !.st = "failed"]
  ELSE [B EXCEPT !.st = "done",
                 !.result = [i \in 1..Len(B.members) |-> T[B.members[i]].result[1]]]

BatchSettle ==
  /\ batch.st = "running"
  /\ \/ \E i \in 1..Len(batch.members) : tasks[batch.members[i]].pc = "failed"
     \/ \A i \in 1..Len(batch.members) : tasks[batch.members[i]].pc = "done"
  /\ batch' = AllSettled(batch, tasks)
  /\ UNCHANGED << registry, loader, codeCache, rpcCalls, keyLog, tasks, ev >>

\* events to its await of getPastLogs, lines 225-232.
CallEvents(name) ==
  /\ ev.st = "idle"
  /\ batch.st = "idle"
  /\ ev' = [ev EXCEPT !.st = "logsAwait", !.name = name, !.calls = @ + 1]
  /\ UNCHANGED << registry, loader, codeCache, rpcCalls, keyLog, tasks, batch >>

\* The transport answers getPastLogs; events calls decodeLogs, line 234.
PastLogsReturn ==
  /\ ev.st = "logsAwait"
  /\ \E logs \in LogLists :
       \E mores \in BurstLists(Len(logs), Budget(Now)) :
         /\ BeginDecodeLogs(logs, ev.name, mores)
         /\ ev' = [ev EXCEPT !.st = "decoding", !.logs = logs]
  /\ UNCHANGED << registry, loader >>

\* An events that asks the transport once more when getPastLogs fails.
PastLogsFailRetrying ==
  /\ ev.st = "logsAwait"
  /\ ev' = IF ev.calls < 2 THEN [ev EXCEPT !.calls = @ + 1] ELSE [ev EXCEPT !.st = "failed"]
  /\ UNCHANGED << registry, loader, codeCache, rpcCalls, keyLog, tasks, batch >>

\* getPastLogs fails: the rejection leaves events at line 228.
PastLogsFail ==
  /\ ev.st = "logsAwait"
  /\ ev' = [ev EXCEPT !.st = "failed"]
  /\ UNCHANGED << registry, loader, codeCache, rpcCalls, keyLog, tasks, batch >>

\* A filter applied whether or not a name was given.
FilterEventsAlways(events, name) ==
  SelectSeq(events, LAMBDA event : Len(event.decodings) > 0)

\* events, lines 240-244: with a target name, the events that decoded to
\* something.
FilterEvents(events, name) ==
  IF name # "undefined"
  THEN SelectSeq(events, LAMBDA event : Len(event.decodings) > 0)
  ELSE events

\* events after decodeLogs settled, lines 234-246.
EventsFinish ==
  /\ ev.st = "decoding"
  /\ batch.st \in {"done", "failed"}
  /\ ev' = IF batch.st = "failed" THEN [ev EXCEPT !.st = "failed"]
           ELSE [ev EXCEPT !.st = "done", !.result = FilterEvents(batch.result, ev.name)]
  /\ UNCHANGED << registry, loader, codeCache, rpcCalls, keyLog, tasks, batch >>

\* The code cache under getCode calls alone.
NextCache ==
  \E t \in TaskIds :
    \/ \E a \in Addresses, b \in Blocks : CallGetCode(t, a, b)
    \/ TransportReturn(t)
    \/ TransportFail(t)

SpecCache == Init /\ [][NextCache]_vars

\* Decode operations side by side.
Next ==
  \E t \in DecodeSlots :
    \/ \E tx \in Transactions : CallDecodeTransaction(t, tx, << >>)
    \/ \E log \in Logs, more \in Bursts(MaxReq) : CallDecodeLog(t, log, "undefined", more)
    \/ \E more \in Bursts(MaxReq) : ResolveContext(t, more)
    \/ \E more \in Bursts(MaxReq) : Resume(t, more)
    \/ TransportReturn(t)
    \/ TransportFail(t)

Spec == Init /\ [][Next]_vars

\* A decoder constructed with any contracts, and one decodeTransaction at
\* block 2, with or without additional contexts.
ContractLists == SeqsUpTo(ContractCatalog, MaxContracts)

InitRegistry ==
  /\ \E contracts \in ContractLists : Constructed(contracts)
  /\ codeCache = [b \in {} |-> EmptyLayer]
  /\ rpcCalls = [key \in Keys |-> 0]
  /\ keyLog = [key \in Keys |-> << >>]
  /\ tasks = [t \in TaskIds |-> IdleTask]
  /\ batch = IdleBatch
  /\ ev = IdleEvents
  /\ loader = IdleLoader

NextRegistry ==
  \/ \E tx \in { x \in Transactions : x.blockNumber = 2 }, more \in AdditionalContexts :
       CallDecodeTransaction(1, tx, more)
  \/ ResolveContext(1, << >>)
  \/ TransportReturn(1)
  \/ TransportFail(1)

SpecRegistry == InitRegistry /\ [][NextRegistry]_vars

\* One decodeLogs or events call and the decodeLog tasks it starts.
NextLogs ==
  \/ CallDecodeLogs
  \/ \E name \in NameOptions : CallEvents(name)
  \/ PastLogsReturn
  \/ PastLogsFail
  \/ \E t \in TaskIds, more \in Bursts(MaxReq) : Resume(t, more)
  \/ \E t \in TaskIds : TransportReturn(t)
  \/ \E t \in TaskIds : TransportFail(t)
  \/ BatchSettle
  \/ EventsFinish

SpecLogs == Init /\ [][NextLogs]_vars

\* One decodeLogs call, of Transfer logs, whose transport calls all return.
\* The event loop runs every continuation that is ready (a driver whose
\* getCode returned, a Promise.all whose promises settled), and the
\* transport answers every call it was sent.
TransferLogLists ==
  { logs \in LogLists : \A i \in 1..Len(logs) : logs[i].topic = "Transfer" }

NextLive ==
  \/ CallDecodeLogsOf(TransferLogLists, {"undefined"})
  \/ \E t \in TaskIds, more \in Bursts(MaxReq) : Resume(t, more)
  \/ \E t \in TaskIds : TransportReturn(t)
  \/ BatchSettle

Fairness ==
  /\ \A t \in TaskIds : WF_vars(\E more \in Bursts(MaxReq) : Resume(t, more))
  /\ \A t \in TaskIds : WF_vars(TransportReturn(t))
  /\ WF_vars(BatchSettle)

SpecLive == Init /\ [][NextLive]_vars /\ Fairness

\* ------------------------------------------ loading contract instances
\* The loadable contract instances of a load: the call bytecode and the
\* create bytecode of an instance are two bytecodes with the link references
\* of one library; the network object may hold a link for it.
LoadableContractInstances ==
  { [contract |-> [id |-> c], network |-> [id |-> n],
     networkObject |-> [address |-> a, transactionHash |-> h, links |-> links],
     bytecodes |-> [call |-> [bytecode |-> [id |-> "callBytecode"],
                              linkReferences |-> << [name |-> "Lib"] >>],
                    create |-> [bytecode |-> [id |-> "createBytecode"],
                                linkReferences |-> << [name |-> "Other"], [name |-> "Lib"] >>]]] :
      c \in {"c1", "c2"}, n \in {"n1", "n2"}, a \in {"x1", "x2"}, h \in {"h1", "h2"},
      links \in { << >>, << [name |-> "Lib", value |-> "x9"] >> } }

InstanceLists == SeqsUpTo(LoadableContractInstances, MaxInstances)

\* linkReferences.findIndex(linkReference => name === linkReference.name),
\* lines 66-68: the first place of the name, counted from 0, or -1.
FindIndex(linkReferences, name) ==
  LET at == { i \in 1..Len(linkReferences) : linkReferences[i].name = name }
  IN  IF at = {} THEN -1 ELSE (CHOOSE i \in at : \A j \in at : i <= j) - 1

\* link, lines 50-76.  links is None when the argument is not passed.
Link(loadableBytecode, links) ==
  IF links = None
  THEN [bytecode |-> loadableBytecode.bytecode, linkValues |-> << >>]
  ELSE [bytecode |-> loadableBytecode.bytecode,
        linkValues |->
          [i \in 1..Len(links[1]) |->
             [value |-> links[1][i].value,
              linkReference |->
                [bytecode |-> loadableBytecode.bytecode,
                 index |-> FindIndex(loadableBytecode.linkReferences, links[1][i].name)]]]]

\* A loader that links the bytecodes with the links of the network object.
GenerateContractInstancesLoadLinking(loadableContractInstances) ==
  [resource |-> "contractInstances",
   inputs |->
     [i \in 1..Len(loadableContractInstances) |->
        LET loadable == loadableContractInstances[i]
        IN  [address |-> loadable.networkObject.address,
             network |-> loadable.network,
             creation |->
               [transactionHash |-> loadable.networkObject.transactionHash,
                constructor |->
                  [createBytecode |-> Link(loadable.bytecodes.create,
                                           Some(loadable.networkObject.links))]],
             contract |-> loadable.contract,
             callBytecode |-> Link(loadable.bytecodes.call,
                                   Some(loadable.networkObject.links))]]]

\* generateContractInstancesLoad to its yield, lines 24-47: the arguments
\* of its generate.load call.
GenerateContractInstancesLoad(loadableContractInstances) ==
  [resource |-> "contractInstances",
   inputs |->
     [i \in 1..Len(loadableContractInstances) |->
        LET loadable == loadableContractInstances[i]
        IN  [address |-> loadable.networkObject.address,
             network |-> loadable.network,
             creation |->
               [transactionHash |-> loadable.networkObject.transactionHash,
                constructor |->
                  [createBytecode |-> Link(loadable.bytecodes.create, None)]],
             contract |-> loadable.contract,
             callBytecode |-> Link(loadable.bytecodes.call, None)]]]

\* The process is started.
CallGenerateContractInstancesLoad ==
  /\ loader.st = "idle"
  /\ loader' = [loader EXCEPT !.st = "loading",
                              !.loads = Append(@, GenerateContractInstancesLoad(loader.input))]
  /\ UNCHANGED << registry, codeCache, rpcCalls, keyLog, tasks, batch, ev >>

\* The load is answered with one resource per input and the process
\* returns the answer, line 47.
LoadReturn ==
  /\ loader.st = "loading"
  /\ loader' = [loader EXCEPT
                  !.st = "done",
                  !.result = Some([i \in 1..Len(loader.loads[1].inputs) |-> [id |-> i]])]
  /\ UNCHANGED << registry, codeCache, rpcCalls, keyLog, tasks, batch, ev >>

InitLoad ==
  /\ Constructed(Contracts)
  /\ codeCache = [b \in {} |-> EmptyLayer]
  /\ rpcCalls = [key \in Keys |-> 0]
  /\ keyLog = [key \in Keys |-> << >>]
  /\ tasks = [t \in TaskIds |-> IdleTask]
  /\ batch = IdleBatch
  /\ ev = IdleEvents
  /\ \E input \in InstanceLists : loader = [IdleLoader EXCEPT !.input = input]

NextLoad ==
  \/ CallGenerateContractInstancesLoad
  \/ LoadReturn

SpecLoad == InitLoad /\ [][NextLoad]_vars

\* ================================================================ claims
\* What the chain holds for a key, as getCode returns it.
ChainBytes(address, block) == ToBytes(ChainCode(address, block))

\* The responses a decode process must have been resumed with.
ExpectedResps(T) ==
  [i \in 1..Len(T.resps) |->
     IF T.script[i].type = "code" THEN Some(ChainBytes(T.script[i].address, T.block))
     ELSE None]

DecodeTasks == { t \in TaskIds : tasks[t].kind \in {"tx", "log"} }

\* The getCode invocations task t has made for requests of its process.
CodeRequestsAnswered(T) == { i \in 1..T.k : T.script[i].type = "code" }

Entry(T) == keyLog[T.wait][T.inv]

\* The getCode invocations of a key so far never overlapped.
Sequential(key) == \A i \in 1..Len(keyLog[key]) : ~keyLog[key][i].overlapped

\* ---- C1
\* C1 as stated: among getCode calls of a key that never overlap, the first
\* makes exactly one transport call and every later one makes none and
\* returns the cached bytes.
C1_FirstFetchesLaterCached ==
  \A key \in Keys :
    Sequential(key) =>
      \A i \in 1..Len(keyLog[key]) :
        LET e == keyLog[key][i]
        IN  /\ i = 1 => e.calls = 1
            /\ i > 1 => /\ e.calls = 0
                        /\ e.st = "ok"
                        /\ e.code = Some(codeCache[key[1]][key[2]])

\* C1, amended: among getCode calls of a key that never overlap, the first
\* makes exactly one transport call; a call that follows a successful call
\* makes no transport call and returns the cached bytes, which are the bytes
\* the transport gave; a call that follows only failed calls makes one
\* transport call again.
C1_FirstFetchesLaterCachedAfterSuccess ==
  \A key \in Keys :
    Sequential(key) =>
      \A i \in 1..Len(keyLog[key]) :
        LET e == keyLog[key][i]
            succeeded == \E j \in 1..(i - 1) : keyLog[key][j].st = "ok"
        IN  /\ i = 1 => e.calls = 1
            /\ succeeded => /\ e.calls = 0
                            /\ e.st = "ok"
                            /\ e.code = Some(codeCache[key[1]][key[2]])
                            /\ e.code = Some(ChainBytes(key[2], key[1]))
            /\ ~succeeded => e.calls = 1
            /\ e.calls \in {0, 1}
            /\ rpcCalls[key] = Cardinality({ j \in 1..Len(keyLog[key]) : keyLog[key][j].calls = 1 })

\* Three calls in a row for one key: a failed fetch, a fetch, a hit.
C1_Witness ==
  \E key \in Keys :
    /\ Sequential(key)
    /\ Len(keyLog[key]) = 3
    /\ keyLog[key][1].st = "fail"
    /\ keyLog[key][2].st = "ok" /\ keyLog[key][2].calls = 1
    /\ keyLog[key][3].st = "ok" /\ keyLog[key][3].calls = 0
    /\ rpcCalls[key] = 2

\* ---- C2
\* C2: for every key, at most one eth_getCode call that did not fail is ever
\* issued, whatever the interleaving of the decode operations.
C2_NoDuplicateFetch ==
  \A key \in Keys :
    Cardinality({ i \in 1..Len(keyLog[key]) :
                    keyLog[key][i].calls = 1 /\ keyLog[key][i].st # "fail" }) <= 1

\* ---- C3
\* C3: once the decode process of a decodeTransaction or decodeLog has
\* yielded a request that is not a code request, the operation has failed,
\* without a result and without the process having been resumed after it.
C3_UnsupportedRequestFails ==
  \A t \in DecodeTasks :
    LET T == tasks[t]
    IN  \A i \in 1..T.k :
          T.script[i].type # "code" =>
            /\ T.pc = "failed"
            /\ T.result = None
            /\ T.nexts = i

\* ---- C4
\* C4: the driver steps the process and answers its request in strict
\* alternation; the response to the i-th request, a code request for address
\* a, is the bytes getCode(a, block) gives, those of the chain and of the
\* cache; a finished operation returned the process's final value and made
\* one step per request plus the last.
C4_DriverProtocol ==
  \A t \in DecodeTasks :
    LET T == tasks[t]
    IN  /\ T.nexts > 0 => Len(T.resps) = T.nexts - 1
        /\ T.nexts = 0 => T.resps = << >> /\ T.k = 0
        /\ T.nexts > 0 => T.k = IF T.pc = "done" THEN T.nexts - 1 ELSE T.nexts
        /\ T.k <= Len(T.script)
        /\ \A i \in 1..Len(T.resps) :
             T.script[i].type = "code" =>
               /\ T.resps[i] = Some(ChainBytes(T.script[i].address, T.block))
               /\ IsCached(codeCache, T.script[i].address, T.block)
               /\ T.resps[i] = Some(codeCache[T.block][T.script[i].address])
        /\ T.pc = "done" =>
             /\ T.k = Len(T.script)
             /\ T.nexts = Len(T.script) + 1
             /\ T.result = Some(Returned([T EXCEPT !.resps = ExpectedResps(T)]))
        /\ T.pc # "done" => T.result = None

\* A finished operation whose process asked for the code of two addresses.
C4_Witness ==
  \E t \in DecodeTasks :
    /\ tasks[t].pc = "done"
    /\ Len(tasks[t].script) = 2
    /\ tasks[t].script[1].type = "code" /\ tasks[t].script[2].type = "code"
    /\ tasks[t].script[1].address # tasks[t].script[2].address
    /\ tasks[t].resps[1] # tasks[t].resps[2]

\* ---- C5
\* What decodeLog must return for a log, given the requests its process made.
ExpectedLog(log, name, script) ==
  LET T0 == [IdleTask EXCEPT !.kind = "log", !.address = log.address,
                             !.block = log.blockNumber, !.input = log.data,
                             !.topic = log.topic, !.name = name, !.script = script,
                             !.resps = [i \in 1..Len(script) |-> None]]
  IN  DecodedLog([T0 EXCEPT !.resps = ExpectedResps(T0)])

\* The decoded logs of a decodeLogs call, in the order of its input.
ExpectedLogs(logs, name) ==
  [i \in 1..Len(logs) |-> ExpectedLog(logs[i], name, tasks[i].script)]

\* C5: a decodeLogs call that has returned gives one result per input log,
\* the i-th being the decoding of the i-th log.
C5_ResultsInInputOrder ==
  batch.st = "done" =>
    /\ Len(batch.result) = Len(batch.logs)
    /\ \A i \in 1..Len(batch.logs) :
         /\ batch.result[i].topic = batch.logs[i].topic
         /\ batch.result[i] = ExpectedLog(batch.logs[i], batch.name, tasks[i].script)

\* Two different logs decoded, each after a fetch of its own.
C5_Witness ==
  /\ batch.st = "done"
  /\ Len(batch.logs) = 2
  /\ batch.logs[1] # batch.logs[2]
  /\ batch.result[1] # batch.result[2]
  /\ tasks[1].made = <<1>> /\ tasks[2].made = <<1>>

\* ---- C6
\* C6: a decode operation whose eth_getCode call failed has failed: it has
\* no result, it made one getCode call per request and one transport call
\* for the failed one, and its process was not resumed after the request.
C6_TransportFailurePropagates ==
  \A t \in DecodeTasks :
    LET T == tasks[t]
    IN  /\ (T.inv > 0 /\ Entry(T).st = "fail") =>
             /\ T.pc = "failed"
             /\ T.result = None
             /\ Entry(T).calls = 1
             /\ T.made[Len(T.made)] = 1
             /\ Len(T.made) = T.ctxCalls + Cardinality(CodeRequestsAnswered(T))
             /\ T.nexts = T.k
             /\ Len(T.resps) = IF T.k = 0 THEN 0 ELSE T.k - 1
        /\ T.pc = "failed" => T.inv > 0 /\ Entry(T).st = "fail"

\* An operation failed by the fetch for its process's second request.
C6_Witness ==
  \E t \in DecodeTasks :
    /\ tasks[t].pc = "failed"
    /\ tasks[t].k = 2
    /\ tasks[t].made = <<1, 1>>
    /\ rpcCalls[tasks[t].wait] = 1

\* ---- C7
SomeFailed == \E u \in TaskIds : tasks[u].pc = "failed"

C8_EventsFilter ==
  ev.st = "done" =>
    LET all == ExpectedLogs(ev.logs, ev.name)
        kept == { i \in 1..Len(all) : Len(all[i].decodings) > 0 }
    IN  IF ev.name # "undefined"
        THEN /\ Len(ev.result) = Cardinality(kept)
             /\ ev.result = SelectSeq(all, LAMBDA e : Len(e.decodings) > 0)
             /\ \A i \in 1..Len(ev.result) : Len(ev.result[i].decodings) > 0
        ELSE /\ Len(ev.result) = Len(ev.logs)
             /\ ev.result = all

\* A Transfer and an Approval log fetched, the Transfer one returned.
C8_Witness ==
  /\ ev.st = "done"
  /\ ev.name = "Transfer"
  /\ Len(ev.logs) = 2
  /\ ev.logs[1].topic = "Approval" /\ ev.logs[2].topic = "Transfer"
  /\ Len(ev.result) = 1
  /\ ev.result[1].topic = "Transfer"

\* ---- C9
ContextResolved(T) == T.kind = "tx" /\ T.nexts > 0

NoContextMatches(T) ==
  FindDecoderContext(contexts,
    IF T.address = NullAddress THEN T.input
    ELSE ToHexString(ChainBytes(T.address, T.block))) = None

\* C10: a decodeTransaction for which no stored context matches fails only
\* by a failed transport call; past context resolution it has run the decode
\* process with a null context, and when it is done it has returned the
\* transaction's fields with the decoding the process produced.
C10_UnresolvedContextNotFatal ==
  \A t \in DecodeTasks :
    LET T == tasks[t]
    IN  (T.kind = "tx" /\ NoContextMatches(T)) =>
          /\ T.pc = "failed" => T.inv > 0 /\ Entry(T).st = "fail"
          /\ T.pc \in {"ready", "await", "done"} => T.ctx = None /\ T.nexts >= 1
          /\ T.pc = "done" =>
               T.result = Some([to |-> T.address, blockNumber |-> T.block,
                                input |-> T.input,
                                decoding |-> [kind |-> "calldata", context |-> None,
                                              data |-> ToBytes(T.input),
                                              seen |-> ExpectedResps(T)]])

\* A transaction of unknown bytecode decoded, after a code request.
C10_Witness ==
  \E t \in DecodeTasks :
    /\ tasks[t].kind = "tx"
    /\ NoContextMatches(tasks[t])
    /\ tasks[t].pc = "done"
    /\ Len(tasks[t].script) >= 1
    /\ tasks[t].script[1].type = "code"
    /\ tasks[t].result[1].decoding.context = None

\* ---- C11
\* The getCode invocations of task t whose transport call is outstanding.
Outstanding(t) ==
  { <<key, i>> \in UNION { {key} \X (1..Len(keyLog[key])) : key \in Keys } :
      keyLog[key][i].task = t /\ keyLog[key][i].st = "pending" }

\* The transport calls the getCode invocations of task t made.
TransportCallsOf(t) ==
  Cardinality({ <<key, i>> \in UNION { {key} \X (1..Len(keyLog[key])) : key \in Keys } :
                  keyLog[key][i].task = t /\ keyLog[key][i].calls = 1 })

\* C11: a decode operation has at most one getCode request outstanding, and
\* has one exactly while its driver awaits getCode; while it has, its decode
\* process has been stepped as many times as it has yielded requests, the
\* last of them being the outstanding one; every transport call is one made
\* by a getCode invocation of a driver.
C11_NoRequestConcurrency ==
  /\ \A t \in DecodeTasks :
       LET T == tasks[t]
       IN  /\ Cardinality(Outstanding(t)) <= 1
           /\ Outstanding(t) # {} <=> T.pc \in {"await", "ctxAwait"}
           /\ Outstanding(t) # {} => Outstanding(t) = { <<T.wait, T.inv>> }
           /\ T.pc = "ctxAwait" => T.nexts = 0 /\ T.wait = <<T.block, T.address>>
           /\ T.pc = "await" =>
                /\ T.nexts = T.k
                /\ T.script[T.k].type = "code"
                /\ T.wait = <<T.block, T.script[T.k].address>>
           /\ TransportCallsOf(t) =
                Cardinality({ i \in 1..Len(T.made) : T.made[i] = 1 })
           /\ Len(T.made) = T.ctxCalls + Cardinality(CodeRequestsAnswered(T))
  /\ \A key \in Keys :
       rpcCalls[key] = Cardinality({ i \in 1..Len(keyLog[key]) : keyLog[key][i].calls = 1 })

\* Two operations each awaiting the fetch for its process's request, one of
\* them for its second request after the first was answered.
C11_Witness ==
  \E t, u \in DecodeTasks :
    /\ t # u
    /\ tasks[t].pc = "await" /\ tasks[t].k = 2 /\ Len(tasks[t].resps) = 1
    /\ tasks[t].made = <<1, 1>>
    /\ tasks[u].pc \in {"await", "ctxAwait"}

\* ---- C12
\* The place of the last assignment the constructor made under a hash.
LastRegistered(hash) ==
  CHOOSE i \in 1..Len(registered) :
    /\ registered[i].hash = hash
    /\ \A j \in 1..Len(registered) : registered[j].hash = hash => j <= i

\* C12: after construction the by-hash table holds, for every fingerprint
\* the constructor registered a context under, exactly one context, the one
\* registered last under it, and holds nothing else.
C12_RegistryTieBreak ==
  /\ \A r \in 1..Len(registered) :
       LET hash == registered[r].hash
           at == { i \in 1..Len(contexts) : contexts[i].hash = hash }
       IN  /\ Cardinality(at) = 1
           /\ \A i \in at : contexts[i].context = registered[LastRegistered(hash)].context
  /\ \A i \in 1..Len(contexts) :
       \E r \in 1..Len(registered) : registered[r].hash = contexts[i].hash

\* One fingerprint registered three times: for the runtime and the creation
\* code of one contract, then for the runtime code of another, whose context
\* the table holds.
C12_Witness ==
  /\ Len(registered) = 3
  /\ registered[1].hash = registered[2].hash /\ registered[2].hash = registered[3].hash
  /\ registered[1].context.contractId = registered[2].context.contractId
  /\ ~registered[1].context.isConstructor /\ registered[2].context.isConstructor
  /\ registered[3].context.contractId # registered[1].context.contractId
  /\ Len(contexts) = 1
  /\ contexts[1].context = registered[3].context

\* ---- C13
\* The view of the contexts of one kind.
ViewOf(isConstructor) == IF isConstructor THEN constructorContextsById ELSE contextsById

\* C13: every entry of the by-id view is a runtime context and every entry
\* of the constructors-by-id view a constructor context, stored under its
\* own contractId and present in the by-hash table; a context of the table
\* with no later context of its contractId and kind in the table is the
\* entry of its contractId in the view of its kind.
C13_ViewConsistency ==
  /\ \A isConstructor \in BOOLEAN :
       \A id \in DOMAIN ViewOf(isConstructor) :
         LET context == ViewOf(isConstructor)[id]
         IN  /\ context.isConstructor = isConstructor
             /\ context.contractId = id
             /\ \E i \in 1..Len(contexts) : contexts[i].context = context
  /\ \A i \in 1..Len(contexts) :
       LET context == contexts[i].context
       IN  (\A j \in (i + 1)..Len(contexts) :
              \/ contexts[j].context.contractId # context.contractId
              \/ contexts[j].context.isConstructor # context.isConstructor)
           => /\ context.contractId \in DOMAIN ViewOf(context.isConstructor)
              /\ ViewOf(context.isConstructor)[context.contractId] = context

\* Two runtime contexts of one contractId in the table, the first of them
\* registered last (under a fingerprint another contract had used before),
\* with the second in the view.
C13_Witness ==
  /\ Len(contexts) >= 2
  /\ contexts[1].context.contractId = contexts[2].context.contractId
  /\ ~contexts[1].context.isConstructor /\ ~contexts[2].context.isConstructor
  /\ LastRegistered(contexts[1].hash) > LastRegistered(contexts[2].hash)
  /\ contextsById[contexts[1].context.contractId] = contexts[2].context

C15_CacheOnlyGrows ==
  [][\A key \in Keys :
       IsCached(codeCache, key[2], key[1]) => IsCached(codeCache', key[2], key[1])]_vars

\* Two keys of one block cached by two operations, one of which failed on
\* a later fetch.
C15_Witness ==
  /\ \E b \in Blocks : b \in DOMAIN codeCache /\ DOMAIN codeCache[b] = Addresses
  /\ \E t \in DecodeTasks : tasks[t].pc = "failed"
  /\ \E t \in DecodeTasks : tasks[t].pc = "done" /\ tasks[t].made # << >>

\* ---- C16
\* Two operations were called with the same input and their decode
\* processes yielded the same requests.
SameRun(T, U) ==
  /\ T.kind = U.kind /\ T.address = U.address /\ T.block = U.block
  /\ T.input = U.input /\ T.topic = U.topic /\ T.name = U.name /\ T.extra = U.extra
  /\ T.script = U.script

\* C16: two finished decode operations with the same input whose processes
\* yielded the same requests returned the same value, whatever the cache
\* held when each began and however they were interleaved.
C16_DriverDeterminism ==
  \A t, u \in DecodeTasks :
    (tasks[t].pc = "done" /\ tasks[u].pc = "done" /\ SameRun(tasks[t], tasks[u]))
      => tasks[t].result = tasks[u].result

\* The same operation run twice, its process asking for code both times:
\* one run fetched from the transport, the other was served by the cache.
C16_Witness ==
  \E t, u \in DecodeTasks :
    /\ t # u
    /\ tasks[t].pc = "done" /\ tasks[u].pc = "done"
    /\ SameRun(tasks[t], tasks[u])
    /\ \E i \in 1..Len(tasks[t].script) : tasks[t].script[i].type = "code"
    /\ \E i \in 1..Len(tasks[t].made) : tasks[t].made[i] = 1
    /\ \A i \in 1..Len(tasks[u].made) : tasks[u].made[i] = 0
    /\ tasks[t].result = tasks[u].result

\* ---- C17
\* While a decodeLog task awaits a fetch, every other task that is ready
\* can be stepped and every other awaited fetch can return.
OthersNotBlocked ==
  \A t, u \in TaskIds :
    (t # u /\ tasks[t].pc = "await") =>
      /\ tasks[u].pc = "ready" => ENABLED Resume(u, << >>)
      /\ tasks[u].pc = "await" => ENABLED TransportReturn(u)

\* C17: a decodeLog task suspended on a fetch blocks no other task of the
\* decodeLogs call, and, the transport answering every call and the
\* processes yielding finitely many requests, every task that was started
\* finishes and the decodeLogs call returns.
C17_Progress ==
  /\ []OthersNotBlocked
  /\ \A t \in TaskIds : (tasks[t].pc \in {"await", "ready"}) ~> (tasks[t].pc = "done")
  /\ (batch.st = "running") ~> (batch.st = "done")

\* A task is done, after a fetch of its own, while its sibling still
\* awaits the fetch it began before.
C17_Witness ==
  /\ batch.st = "running"
  /\ tasks[1].pc = "await" /\ tasks[1].k = 1
  /\ tasks[2].pc = "done" /\ tasks[2].made = <<1>>

\* ---- C18
CachedKeys(cache) == { key \in Keys : IsCached(cache, key[2], key[1]) }

\* C18: the step in which a getCode call fails leaves the set of cached keys
\* as it was, without the call's key in it unless another call had cached
\* it; a getCode for a key none of whose earlier calls succeeded makes a
\* transport call.
C18_FailedFetchNotCached ==
  /\ [][\A t \in TaskIds :
          (tasks[t].pc = "await" /\ tasks'[t].pc = "failed") =>
            /\ CachedKeys(codeCache') = CachedKeys(codeCache)
            /\ (\A i \in 1..Len(keyLog[tasks[t].wait]) :
                   keyLog[tasks[t].wait][i].st # "ok")
                 => tasks[t].wait \notin CachedKeys(codeCache')]_vars
  /\ [](\A key \in Keys :
          \A i \in 1..Len(keyLog[key]) :
            (\A j \in 1..(i - 1) : keyLog[key][j].st # "ok") => keyLog[key][i].calls = 1)

\* A getCode failed and the next getCode for its key, begun after the
\* failure, was sent to the transport and cached what it got.
C18_Witness ==
  \E key \in Keys :
    /\ Len(keyLog[key]) = 2
    /\ keyLog[key][1].st = "fail"
    /\ ~keyLog[key][2].overlapped
    /\ keyLog[key][2].calls = 1 /\ keyLog[key][2].st = "ok"
    /\ rpcCalls[key] = 2
    /\ key \in CachedKeys(codeCache)

\* ---- C19
\* No decode was started and no getCode was called; the cache is as the
\* constructor left it.
NothingDecoded ==
  /\ \A t \in TaskIds : tasks[t] = IdleTask
  /\ batch = IdleBatch
  /\ \A key \in Keys : keyLog[key] = << >> /\ rpcCalls[key] = 0
  /\ codeCache = [b \in {} |-> EmptyLayer]

\* C19: an events call has made one getPastLogs call, no more; while it
\* awaits the answer nothing was decoded and no getCode was called; the
\* logs it decodes are those of the answer; when getPastLogs failed the
\* call has failed with nothing decoded and the cache unchanged.
C19_EventsOneLogQuery ==
  /\ ev.calls = IF ev.st = "idle" THEN 0 ELSE 1
  /\ ev.st = "logsAwait" => NothingDecoded
  /\ ev.st \in {"decoding", "done"} => batch.st # "idle" /\ batch.logs = ev.logs
  /\ ev.st = "failed" =>
       \/ batch.st = "idle" /\ NothingDecoded /\ ev.result = << >>
       \/ batch.st = "failed" /\ batch.logs = ev.logs

\* An events call failed by its getPastLogs call.
C19_Witness ==
  /\ ev.st = "failed"
  /\ ev.calls = 1
  /\ batch.st = "idle"
  /\ NothingDecoded

\* ---- C20
\* C20: a generateContractInstancesLoad that has reached its yield has asked
\* for one load, of "contractInstances", with one input per loadable
\* instance in the order given, each with the contract, network, address
\* and transactionHash of its instance, the call bytecode and the create
\* bytecode of its instance, and no link values for either.
C20_ContractInstancesLoad ==
  loader.st # "idle" =>
    /\ Len(loader.loads) = 1
    /\ loader.loads[1].resource = "contractInstances"
    /\ Len(loader.loads[1].inputs) = Len(loader.input)
    /\ \A i \in 1..Len(loader.input) :
         LET instance == loader.loads[1].inputs[i]
             loadable == loader.input[i]
         IN  /\ instance.contract = loadable.contract
             /\ instance.network = loadable.network
             /\ instance.address = loadable.networkObject.address
             /\ instance.creation.transactionHash = loadable.networkObject.transactionHash
             /\ instance.callBytecode.bytecode = loadable.bytecodes.call.bytecode
             /\ instance.callBytecode.linkValues = << >>
             /\ instance.creation.constructor.createBytecode.bytecode =
                  loadable.bytecodes.create.bytecode
             /\ instance.creation.constructor.createBytecode.linkValues = << >>

\* Two instances that differ in contract, network, address and transaction,
\* the first with a link in its network object, loaded.
C20_Witness ==
  /\ loader.st = "done"
  /\ Len(loader.input) = 2
  /\ loader.input[1].contract # loader.input[2].contract
  /\ loader.input[1].network # loader.input[2].network
  /\ loader.input[1].networkObject.address # loader.input[2].networkObject.address
  /\ loader.input[1].networkObject.transactionHash
       # loader.input[2].networkObject.transactionHash
  /\ loader.input[1].networkObject.links # << >>
  /\ Len(loader.loads[1].inputs) = 2

====
